---- MODULE Spec2Model ----
(***************************************************************************)
(* Model of the authorization error taxonomy and its REST projection       *)
(* (service/authz/implementations/openfga/error.rs) and of the identifier  *)
(* model (service/mod.rs) of the iceberg-catalog crate.                    *)
(*                                                                         *)
(* The code is a stateless layer of pure functions.  The state of the      *)
(* model is one invocation: the type of the argument (kind), the argument  *)
(* (arg), the operation that was applied to it (call, "none" before the    *)
(* invocation) and the value it returned (ret).                            *)
(***************************************************************************)
EXTENDS Integers, Sequences, FiniteSets, TLC

VARIABLES kind, arg, call, ret

vars == <<kind, arg, call, ret>>

(***************************************************************************)
(* Option<T>                                                               *)
(***************************************************************************)
None == [some |-> FALSE]

Some(v) == [some |-> TRUE, val |-> v]

(***************************************************************************)
(* tonic::Status : a gRPC status code and a message.                        *)
(***************************************************************************)
Codes ==
    {"Ok", "Cancelled", "Unknown", "InvalidArgument", "DeadlineExceeded",
     "NotFound", "AlreadyExists", "PermissionDenied", "ResourceExhausted",
     "FailedPrecondition", "Aborted", "OutOfRange", "Unimplemented",
     "Internal", "Unavailable", "DataLoss", "Unauthenticated"}

TupleAlreadyExistsPrefix == "cannot write a tuple which already exists"

TupleNotFoundPrefix == "cannot delete a tuple which does not exist"

TupleDetail == ": user:u1#owner@project:p1"

\* s without its last character
DropLast(s) == SubSeq(s, 1, Len(s) - 1)

Messages ==
    {TupleAlreadyExistsPrefix,
     TupleAlreadyExistsPrefix \o TupleDetail,
     TupleNotFoundPrefix,
     TupleNotFoundPrefix \o TupleDetail,
     DropLast(TupleAlreadyExistsPrefix),
     DropLast(TupleNotFoundPrefix),
     "x" \o TupleAlreadyExistsPrefix,
     "Cannot write a tuple which already exists",
     TupleNotFoundPrefix \o " / " \o TupleAlreadyExistsPrefix,
     "",
     "transport error"}

Statuses == [code : Codes, message : Messages]

(***************************************************************************)
(* Payloads of the variants of OpenFGAError.                               *)
(***************************************************************************)
WriteRequests == {"write_request_1", "write_request_2"}

ReadRequests == {"read_request_1", "read_request_2"}

CheckRequests == {"check_request_1", "check_request_2"}

Identities == {"user:u1", "project:p1", ""}

Relations == {"owner", "can_create"}

Reasons == {"no model", ""}

PageLimits == {0, 100}

FgaTypes == {<<>>, <<"Project">>, <<"Project", "Warehouse">>}

OpenFGAErrors ==
    [variant : {"AuthorizationModelIdFailed"}, reason : Reasons]
    \cup [variant : {"ClientCredentialFailed"}, source : {"middle::Error"}]
    \cup [variant : {"ConnectionFailed"}, source : {"tonic::transport::Error"}]
    \cup [variant : {"Internal"}, status : Statuses]
    \cup [variant : {"InvalidBearerToken"}, source : {"InvalidMetadataValue"}]
    \cup [variant : {"ListAuthenticationModelsFailed"}, status : Statuses]
    \cup [variant : {"ListStoresFailed"}, status : Statuses]
    \cup [variant : {"ReadFailed"}, read_request : ReadRequests, source : Statuses]
    \cup [variant : {"CheckFailed"}, check_request : CheckRequests, source : Statuses]
    \cup [variant : {"StoreCreationFailed"}, status : Statuses]
    \cup [variant : {"StoreNotFound"}, store : Identities]
    \cup [variant : {"TooManyAuthorizationModels"}, max_pages : PageLimits]
    \cup [variant : {"TooManyPages"}, max_pages : PageLimits, tuple : Identities]
    \cup [variant : {"Unauthenticated"}, status : Statuses]
    \cup [variant : {"UnexpectedEntity"}, type : FgaTypes, value : Identities]
    \cup [variant : {"UnknownType"}, value : Identities]
    \cup [variant : {"InvalidEntity"}, value : Identities]
    \cup [variant : {"UnknownModelVersionApplied"}, version : PageLimits]
    \cup [variant : {"WriteAuthorizationModelFailed"}, status : Statuses]
    \cup [variant : {"WriteFailed"}, write_request : WriteRequests, source : Statuses]
    \cup [variant : {"TooManyWrites"}, actual : PageLimits, max : PageLimits]
    \cup [variant : {"NoProjectId"}]
    \cup [variant : {"AuthenticationRequired"}]
    \cup [variant : {"Unauthorized"}, user : Identities, relation : Relations,
          object : Identities]
    \cup [variant : {"SelfAssignment"}, identity : Identities]

\* The variants that wrap a tonic::Status as a tuple field
StatusTupleVariants ==
    {"Internal", "ListAuthenticationModelsFailed", "ListStoresFailed",
     "StoreCreationFailed", "Unauthenticated", "WriteAuthorizationModelFailed"}

\* The variants that wrap a tonic::Status as the field 'source'
StatusSourceVariants == {"ReadFailed", "CheckFailed", "WriteFailed"}

(***************************************************************************)
(* OpenFGAError::known_status and the classifying constructors.            *)
(***************************************************************************)
known_status_no_internal(status) ==
    IF status.code = "Unauthenticated"
    THEN Some([variant |-> "Unauthenticated", status |-> status])
    ELSE None

known_status(status) ==
    CASE status.code = "Unauthenticated" ->
            Some([variant |-> "Unauthenticated", status |-> status])
      [] status.code = "Internal" ->
            Some([variant |-> "Internal", status |-> status])
      [] OTHER -> None

\* Option::unwrap_or
unwrap_or(opt, default) == IF opt.some THEN opt.val ELSE default

store_creation(status) ==
    unwrap_or(known_status(status),
              [variant |-> "StoreCreationFailed", status |-> status])

list_stores(status) ==
    unwrap_or(known_status(status),
              [variant |-> "ListStoresFailed", status |-> status])

list_authentication_models(status) ==
    unwrap_or(known_status(status),
              [variant |-> "ListAuthenticationModelsFailed", status |-> status])

write_authorization_model(status) ==
    unwrap_or(known_status(status),
              [variant |-> "WriteAuthorizationModelFailed", status |-> status])

unexpected_entity(type, value) ==
    [variant |-> "UnexpectedEntity", type |-> type, value |-> value]

as_status(e) ==
    CASE e.variant \in {"CheckFailed", "ReadFailed", "WriteFailed"} ->
            Some(e.source)
      [] e.variant \in {"Unauthenticated", "Internal",
                        "WriteAuthorizationModelFailed", "ListStoresFailed",
                        "StoreCreationFailed"} ->
            Some(e.status)
      [] OTHER -> None

(***************************************************************************)
(* Display of OpenFGAError (the #[error(...)] attributes).  A backquote in  *)
(* a message is written as an apostrophe here.                             *)
(***************************************************************************)
\* Display of tonic::Status
StatusDisplay(status) ==
    "status: " \o status.code \o ", message: '" \o status.message \o "'"

\* Debug of Vec<FgaType>
RECURSIVE JoinTypes(_)
JoinTypes(types) ==
    IF Len(types) = 0 THEN ""
    ELSE IF Len(types) = 1 THEN Head(types)
    ELSE Head(types) \o ", " \o JoinTypes(Tail(types))

to_string(e) ==
    CASE e.variant = "AuthorizationModelIdFailed" ->
            "Authorization Model ID failed: " \o e.reason
      [] e.variant = "ClientCredentialFailed" ->
            "Client Credential refresh failed"
      [] e.variant = "ConnectionFailed" -> "Connection to OpenFGA failed"
      [] e.variant = "Internal" -> "Internal Authorization Error"
      [] e.variant = "InvalidBearerToken" ->
            "Invalid Bearer Token for OpenFGA: " \o e.source
      [] e.variant = "ListAuthenticationModelsFailed" ->
            "Listing authentication models failed"
      [] e.variant = "ListStoresFailed" ->
            "OpenFGA Error: Listing stores failed"
      [] e.variant = "ReadFailed" -> "Reading tuples failed"
      [] e.variant = "CheckFailed" -> "Authorization check failed"
      [] e.variant = "StoreCreationFailed" ->
            "Store creation failed: " \o StatusDisplay(e.status)
      [] e.variant = "StoreNotFound" ->
            "Store " \o e.store
                \o " not found. Please ensure to run migration first."
      [] e.variant = "TooManyAuthorizationModels" ->
            "Too many authorization models in database. Max allowed pages: "
                \o ToString(e.max_pages)
      [] e.variant = "TooManyPages" -> "Too many pages"
      [] e.variant = "Unauthenticated" ->
            "Authentication to Authorization system failed"
      [] e.variant = "UnexpectedEntity" ->
            "Unexpected entity for type [" \o JoinTypes(e.type) \o "]: "
                \o e.value
      [] e.variant = "UnknownType" -> "Unknown type: " \o e.value
      [] e.variant = "InvalidEntity" ->
            "Invalid entity string: '" \o e.value \o "'"
      [] e.variant = "UnknownModelVersionApplied" ->
            "Unknown model version currently applied"
      [] e.variant = "WriteAuthorizationModelFailed" ->
            "Failed to write Authorization model: " \o StatusDisplay(e.status)
      [] e.variant = "WriteFailed" -> "Failed to write Authorization tuples"
      [] e.variant = "TooManyWrites" ->
            "Too many writes and deletes in single Authorization transaction (actual) "
                \o ToString(e.actual) \o " > " \o ToString(e.max) \o " (max)"
      [] e.variant = "NoProjectId" ->
            "Project ID could not be inferred from request. Please specify it explicitly."
      [] e.variant = "AuthenticationRequired" -> "Authentication required"
      [] e.variant = "Unauthorized" ->
            "Unauthorized for action '" \o e.relation \o "' on '" \o e.object
                \o "' for '" \o e.user \o "'"
      [] e.variant = "SelfAssignment" ->
            "Cannot assign " \o e.identity \o " to itself"

(***************************************************************************)
(* ErrorModel (iceberg_ext::catalog::rest) and its constructors.           *)
(***************************************************************************)
INTERNAL_SERVER_ERROR == 500

BAD_REQUEST == 400

ErrorModel_new(message, type, code, source) ==
    [message |-> message, type |-> type, code |-> code, source |-> source,
     stack |-> <<>>]

ErrorModel_bad_request(message, type, source) ==
    ErrorModel_new(message, type, 400, source)

ErrorModel_unauthorized(message, type, source) ==
    ErrorModel_new(message, type, 401, source)

ErrorModel_not_found(message, type, source) ==
    ErrorModel_new(message, type, 404, source)

ErrorModel_conflict(message, type, source) ==
    ErrorModel_new(message, type, 409, source)

(***************************************************************************)
(* impl From<OpenFGAError> for ErrorModel                                  *)
(***************************************************************************)
\* a plausible slip: comparing the whole message instead of its prefix
starts_with_whole(s, prefix) == s = prefix

\* str::starts_with
starts_with(s, prefix) ==
    /\ Len(s) >= Len(prefix)
    /\ SubSeq(s, 1, Len(prefix)) = prefix

\* Option<String>::is_some_and(|s| s.starts_with(prefix))
is_some_and_starts_with(opt, prefix) ==
    opt.some /\ starts_with(opt.val, prefix)

\* Option<&Status>::map(|s| s.message().to_string())
map_message(opt) == IF opt.some THEN Some(opt.val.message) ELSE None

\* the arm `e @ OpenFGAError::WriteFailed { .. }`
FromWriteFailed(e, err_msg, status_msg) ==
    IF is_some_and_starts_with(status_msg, TupleAlreadyExistsPrefix)
    THEN ErrorModel_conflict(err_msg, "TupleAlreadyExistsError", Some(e))
    ELSE IF is_some_and_starts_with(status_msg, TupleNotFoundPrefix)
    THEN ErrorModel_not_found(err_msg, "TupleNotFoundError", Some(e))
    ELSE ErrorModel_new(err_msg, "AuthorizationError", INTERNAL_SERVER_ERROR,
                        Some(e))

\* a plausible slip: a dedicated 401 arm for Unauthenticated
FromOther_unauthenticated_401(err) ==
    IF err.variant = "Unauthenticated"
    THEN ErrorModel_unauthorized(to_string(err), "Unauthenticated", Some(err))
    ELSE ErrorModel_new(to_string(err), "AuthorizationError",
                        INTERNAL_SERVER_ERROR, Some(err))

\* a plausible slip: the projected error is not kept as the cause
FromOther_no_cause(err) ==
    ErrorModel_new(to_string(err), "AuthorizationError", INTERNAL_SERVER_ERROR,
                   None)

\* a plausible slip: the message of every wrapped status is inspected
FromOther_sniffing(err) ==
    FromWriteFailed(err, to_string(err), map_message(as_status(err)))

\* the arm `_`
FromOther(err) ==
    ErrorModel_new(to_string(err), "AuthorizationError", INTERNAL_SERVER_ERROR,
                   Some(err))

\* a plausible slip: Unauthorized projected as 403 Forbidden
From_unauthorized_403(err) ==
    LET err_msg == to_string(err)
        status_msg == map_message(as_status(err))
    IN  CASE err.variant = "NoProjectId" ->
                ErrorModel_bad_request(err_msg, "NoProjectId", Some(err))
          [] err.variant = "AuthenticationRequired" ->
                ErrorModel_unauthorized(err_msg, "AuthenticationRequired",
                                        Some(err))
          [] err.variant = "Unauthorized" ->
                ErrorModel_new(err_msg, "Forbidden", 403, Some(err))
          [] err.variant = "WriteFailed" ->
                FromWriteFailed(err, err_msg, status_msg)
          [] OTHER -> FromOther(err)

From(err) ==
    LET err_msg == to_string(err)
        status_msg == map_message(as_status(err))
    IN  CASE err.variant = "NoProjectId" ->
                ErrorModel_bad_request(err_msg, "NoProjectId", Some(err))
          [] err.variant = "AuthenticationRequired" ->
                ErrorModel_unauthorized(err_msg, "AuthenticationRequired",
                                        Some(err))
          [] err.variant = "Unauthorized" ->
                ErrorModel_unauthorized(err_msg, "Unauthorized", Some(err))
          [] err.variant = "WriteFailed" ->
                FromWriteFailed(err, err_msg, status_msg)
          [] OTHER -> FromOther(err)

\* impl From<OpenFGAError> for IcebergErrorResponse
IcebergErrorResponse_from(err) == [error |-> From(err)]

(***************************************************************************)
(* uuid::Uuid : 128 bits, held as 32 hexadecimal digits (values 0..15).     *)
(***************************************************************************)
MaxStride == 3

UuidValues ==
    {[i \in 1..32 |-> (a * i + b) % 16] : a \in 0..MaxStride, b \in 0..15}

HexLower == "0123456789abcdef"

HexUpper == "0123456789ABCDEF"

\* the i-th character of s
CharAt(s, i) == SubSeq(s, i, i)

\* digits[i..j] of u written with the digit characters of alphabet
RECURSIVE Hex(_, _, _, _)
Hex(u, i, j, alphabet) ==
    IF i > j THEN ""
    ELSE CharAt(alphabet, u[i] + 1) \o Hex(u, i + 1, j, alphabet)

\* the 8-4-4-4-12 form
Hyphenated(u, alphabet) ==
    Hex(u, 1, 8, alphabet) \o "-" \o Hex(u, 9, 12, alphabet) \o "-"
        \o Hex(u, 13, 16, alphabet) \o "-" \o Hex(u, 17, 20, alphabet) \o "-"
        \o Hex(u, 21, 32, alphabet)

\* Display of uuid::Uuid: hyphenated, lower case
Uuid_to_string(u) == Hyphenated(u, HexLower)

\* value of a hexadecimal digit character, -1 when it is not one
HexValue(c) ==
    IF \E i \in 1..16 : CharAt(HexLower, i) = c
    THEN (CHOOSE i \in 1..16 : CharAt(HexLower, i) = c) - 1
    ELSE IF \E i \in 1..16 : CharAt(HexUpper, i) = c
    THEN (CHOOSE i \in 1..16 : CharAt(HexUpper, i) = c) - 1
    ELSE -1

\* Result<T, E>
Ok(v) == [ok |-> TRUE, val |-> v]

Err(e) == [ok |-> FALSE, err |-> e]

\* 32 hexadecimal digits; the error is the kind of failure, not its text
parse_simple(s) ==
    IF Len(s) /= 32 THEN Err("invalid length")
    ELSE IF \E i \in 1..32 : HexValue(CharAt(s, i)) = -1
    THEN Err("invalid character")
    ELSE Ok([i \in 1..32 |-> HexValue(CharAt(s, i))])

\* 8-4-4-4-12 hexadecimal digits
parse_hyphenated(s) ==
    IF Len(s) /= 36 THEN Err("invalid length")
    ELSE IF \E i \in {9, 14, 19, 24} : CharAt(s, i) /= "-"
    THEN Err("invalid group")
    ELSE parse_simple(SubSeq(s, 1, 8) \o SubSeq(s, 10, 13)
                        \o SubSeq(s, 15, 18) \o SubSeq(s, 20, 23)
                        \o SubSeq(s, 25, 36))

\* uuid::Uuid::from_str / uuid::Uuid::parse_str: the simple form, the
\* hyphenated form, the hyphenated form in braces or after "urn:uuid:"
Uuid_parse_str(s) ==
    CASE Len(s) = 32 -> parse_simple(s)
      [] Len(s) = 36 -> parse_hyphenated(s)
      [] Len(s) = 38 /\ CharAt(s, 1) = "{" /\ CharAt(s, 38) = "}" ->
            parse_hyphenated(SubSeq(s, 2, 37))
      [] Len(s) = 45 /\ SubSeq(s, 1, 9) = "urn:uuid:" ->
            parse_hyphenated(SubSeq(s, 10, 45))
      [] OTHER -> Err("invalid length")

(***************************************************************************)
(* The identifier types: NamespaceIdentUuid, TableIdentUuid, ProjectIdent  *)
(* and WarehouseIdent, each a newtype of uuid::Uuid.                       *)
(***************************************************************************)
\* ErrorModel::builder().code(..).message(..).type(..).stack(..).build()
ErrorModel_build(code, message, type, stack) ==
    [message |-> message, type |-> type, code |-> code, source |-> None,
     stack |-> stack]

\* impl From<ErrorModel> for IcebergErrorResponse, applied by `?`
IcebergErrorResponse(model) == [error |-> model]

\* NamespaceIdentUuid(uuid) / impl From<uuid::Uuid> for NamespaceIdentUuid
NamespaceIdentUuid(uuid) == [type |-> "NamespaceIdentUuid", uuid |-> uuid]

\* impl Display for NamespaceIdentUuid
NamespaceIdentUuid_to_string(id) == Uuid_to_string(id.uuid)

\* impl FromStr for NamespaceIdentUuid
NamespaceIdentUuid_from_str(s) ==
    LET r == Uuid_parse_str(s)
    IN  IF r.ok THEN Ok(NamespaceIdentUuid(r.val))
        ELSE Err(IcebergErrorResponse(
                ErrorModel_build(BAD_REQUEST,
                                 "Provided namespace id is not a valid UUID",
                                 "NamespaceIDIsNotUUID", <<r.err>>)))

\* TableIdentUuid(uuid) / impl From<uuid::Uuid> for TableIdentUuid
TableIdentUuid(uuid) == [type |-> "TableIdentUuid", uuid |-> uuid]

\* impl Display for TableIdentUuid
TableIdentUuid_to_string(id) == Uuid_to_string(id.uuid)

\* a plausible slip: the type tag of another identifier kind
TableIdentUuid_from_str_wrong_tag(s) ==
    LET r == Uuid_parse_str(s)
    IN  IF r.ok THEN Ok(TableIdentUuid(r.val))
        ELSE Err(IcebergErrorResponse(
                ErrorModel_build(BAD_REQUEST,
                                 "Provided table id is not a valid UUID",
                                 "NamespaceIDIsNotUUID", <<r.err>>)))

\* impl FromStr for TableIdentUuid
TableIdentUuid_from_str(s) ==
    LET r == Uuid_parse_str(s)
    IN  IF r.ok THEN Ok(TableIdentUuid(r.val))
        ELSE Err(IcebergErrorResponse(
                ErrorModel_build(BAD_REQUEST,
                                 "Provided table id is not a valid UUID",
                                 "TableIDIsNotUUID", <<r.err>>)))

\* ProjectIdent(uuid) / impl From<uuid::Uuid> for ProjectIdent
ProjectIdent(uuid) == [type |-> "ProjectIdent", uuid |-> uuid]

\* a plausible slip: the wrapper is written with its Debug form
ProjectIdent_to_string_debug(id) ==
    "ProjectIdent(" \o Uuid_to_string(id.uuid) \o ")"

\* impl Display for ProjectIdent
ProjectIdent_to_string(id) == Uuid_to_string(id.uuid)

\* impl FromStr for ProjectIdent
ProjectIdent_from_str(s) ==
    LET r == Uuid_parse_str(s)
    IN  IF r.ok THEN Ok(ProjectIdent(r.val))
        ELSE Err(IcebergErrorResponse(
                ErrorModel_build(BAD_REQUEST,
                                 "Provided project id is not a valid UUID",
                                 "ProjectIDIsNotUUID", <<r.err>>)))

\* WarehouseIdent(uuid) / impl From<uuid::Uuid> for WarehouseIdent
WarehouseIdent(uuid) == [type |-> "WarehouseIdent", uuid |-> uuid]

\* impl Display for WarehouseIdent
WarehouseIdent_to_string(id) == Uuid_to_string(id.uuid)

\* impl FromStr for WarehouseIdent
WarehouseIdent_from_str(s) ==
    LET r == Uuid_parse_str(s)
    IN  IF r.ok THEN Ok(WarehouseIdent(r.val))
        ELSE Err(IcebergErrorResponse(
                ErrorModel_build(BAD_REQUEST,
                                 "Provided warehouse id is not a valid UUID",
                                 "WarehouseIDIsNotUUID", <<r.err>>)))

\* impl TryFrom<Prefix> for WarehouseIdent
WarehouseIdent_try_from(value) ==
    LET r == Uuid_parse_str(value)
    IN  IF r.ok THEN Ok(WarehouseIdent(r.val))
        ELSE Err(IcebergErrorResponse(
                ErrorModel_build(BAD_REQUEST,
                                 "Provided prefix is not a warehouse id. Expected UUID, got: "
                                     \o value,
                                 "PrefixIsNotWarehouseID", <<r.err>>)))

(***************************************************************************)
(* NamespaceIdent : a sequence of name segments.                            *)
(***************************************************************************)
MaxSegments == 4

Segments == {"a", "b", "c"}

NamespaceIdents ==
    UNION {[1..n -> Segments] : n \in 0..MaxSegments}

\* NamespaceIdent::from_vec: fails on an empty vector only
NamespaceIdent_from_vec(names) ==
    IF Len(names) = 0 THEN Err("empty namespace") ELSE Ok(names)

\* Vec::pop: removes the last element if there is one
pop(name) == IF Len(name) = 0 THEN name ELSE SubSeq(name, 1, Len(name) - 1)

\* a plausible slip: the last segment is not removed
parent_no_pop(self) ==
    LET name == self
    IN  IF Len(name) = 0 THEN None
        ELSE LET r == NamespaceIdent_from_vec(name)
             IN  IF r.ok THEN Some(r.val) ELSE None

\* NamespaceIdentExt::parent
parent(self) ==
    LET name == pop(self)
    IN  IF Len(name) = 0 THEN None
        ELSE LET r == NamespaceIdent_from_vec(name)
             IN  IF r.ok THEN Some(r.val) ELSE None

(***************************************************************************)
(* The strings the parsers are given: the textual forms of the UUIDs and   *)
(* strings that are not UUIDs.                                             *)
(***************************************************************************)
\* s with its i-th character replaced by c
ReplaceAt(s, i, c) == SubSeq(s, 1, i - 1) \o c \o SubSeq(s, i + 1, Len(s))

UuidTexts ==
    UNION {{Hyphenated(u, HexLower),
            Hyphenated(u, HexUpper),
            Hex(u, 1, 32, HexLower),
            "{" \o Hyphenated(u, HexLower) \o "}",
            "urn:uuid:" \o Hyphenated(u, HexUpper)} : u \in UuidValues}

NonUuidTexts ==
    {"", "not-a-uuid", "default", "0123456789abcdef0123456789abcdeg"}
    \cup UNION {{DropLast(Hyphenated(u, HexLower)),
                 Hyphenated(u, HexLower) \o "0",
                 ReplaceAt(Hyphenated(u, HexLower), 1, "g"),
                 ReplaceAt(Hyphenated(u, HexLower), 9, "_"),
                 Hex(u, 1, 9, HexLower) \o "-" \o Hex(u, 10, 12, HexLower)
                    \o "-" \o Hex(u, 13, 16, HexLower) \o "-"
                    \o Hex(u, 17, 20, HexLower) \o "-"
                    \o Hex(u, 21, 32, HexLower),
                 "{" \o Hyphenated(u, HexLower),
                 "(" \o Hyphenated(u, HexLower) \o ")",
                 "uuid:urn:" \o Hyphenated(u, HexLower),
                 " " \o Hyphenated(u, HexLower)} : u \in UuidValues}

Texts == UuidTexts \cup NonUuidTexts

(***************************************************************************)
(* Operations on errors.  An input is drawn in the initial state; an       *)
(* operation that accepts it is applied to it.  The error a classifying    *)
(* constructor returned can then be projected.                             *)
(***************************************************************************)
ClassifyingConstructors ==
    {"store_creation", "list_stores", "list_authentication_models",
     "write_authorization_model"}

StoreCreation ==
    /\ call = "none" /\ kind = "Status"
    /\ call' = "store_creation"
    /\ ret' = store_creation(arg)
    /\ UNCHANGED <<kind, arg>>

ListStores ==
    /\ call = "none" /\ kind = "Status"
    /\ call' = "list_stores"
    /\ ret' = list_stores(arg)
    /\ UNCHANGED <<kind, arg>>

ListAuthenticationModels ==
    /\ call = "none" /\ kind = "Status"
    /\ call' = "list_authentication_models"
    /\ ret' = list_authentication_models(arg)
    /\ UNCHANGED <<kind, arg>>

WriteAuthorizationModel ==
    /\ call = "none" /\ kind = "Status"
    /\ call' = "write_authorization_model"
    /\ ret' = write_authorization_model(arg)
    /\ UNCHANGED <<kind, arg>>

UnexpectedEntity ==
    /\ call = "none" /\ kind = "Entity"
    /\ call' = "unexpected_entity"
    /\ ret' = unexpected_entity(arg[1], arg[2])
    /\ UNCHANGED <<kind, arg>>

\* ErrorModel::from(err) on an error value built by a caller
Project ==
    /\ call = "none" /\ kind = "OpenFGAError"
    /\ call' = "ErrorModel::from"
    /\ ret' = From(arg)
    /\ UNCHANGED <<kind, arg>>

\* ErrorModel::from(err) on the error a constructor has just returned
ProjectReturned ==
    /\ call \in ClassifyingConstructors \cup {"unexpected_entity"}
    /\ call' = "ErrorModel::from"
    /\ kind' = "OpenFGAError"
    /\ arg' = ret
    /\ ret' = From(ret)

ProjectResponse ==
    /\ call = "none" /\ kind = "OpenFGAError"
    /\ call' = "IcebergErrorResponse::from"
    /\ ret' = IcebergErrorResponse_from(arg)
    /\ UNCHANGED <<kind, arg>>

(***************************************************************************)
(* Operations on identifiers.                                              *)
(***************************************************************************)
\* NamespaceIdentUuid::from_str(s)
ParseNamespaceIdentUuid ==
    /\ call = "none" /\ kind = "String"
    /\ call' = "NamespaceIdentUuid::from_str"
    /\ ret' = NamespaceIdentUuid_from_str(arg)
    /\ UNCHANGED <<kind, arg>>

\* NamespaceIdentUuid::from_str(&NamespaceIdentUuid::from(uuid).to_string())
RoundTripNamespaceIdentUuid ==
    /\ call = "none" /\ kind = "Uuid"
    /\ call' = "NamespaceIdentUuid::round_trip"
    /\ ret' = NamespaceIdentUuid_from_str(NamespaceIdentUuid_to_string(NamespaceIdentUuid(arg)))
    /\ UNCHANGED <<kind, arg>>

\* TableIdentUuid::from_str(s)
ParseTableIdentUuid ==
    /\ call = "none" /\ kind = "String"
    /\ call' = "TableIdentUuid::from_str"
    /\ ret' = TableIdentUuid_from_str(arg)
    /\ UNCHANGED <<kind, arg>>

\* TableIdentUuid::from_str(&TableIdentUuid::from(uuid).to_string())
RoundTripTableIdentUuid ==
    /\ call = "none" /\ kind = "Uuid"
    /\ call' = "TableIdentUuid::round_trip"
    /\ ret' = TableIdentUuid_from_str(TableIdentUuid_to_string(TableIdentUuid(arg)))
    /\ UNCHANGED <<kind, arg>>

\* ProjectIdent::from_str(s)
ParseProjectIdent ==
    /\ call = "none" /\ kind = "String"
    /\ call' = "ProjectIdent::from_str"
    /\ ret' = ProjectIdent_from_str(arg)
    /\ UNCHANGED <<kind, arg>>

\* ProjectIdent::from_str(&ProjectIdent::from(uuid).to_string())
RoundTripProjectIdent ==
    /\ call = "none" /\ kind = "Uuid"
    /\ call' = "ProjectIdent::round_trip"
    /\ ret' = ProjectIdent_from_str(ProjectIdent_to_string(ProjectIdent(arg)))
    /\ UNCHANGED <<kind, arg>>

\* WarehouseIdent::from_str(s)
ParseWarehouseIdent ==
    /\ call = "none" /\ kind = "String"
    /\ call' = "WarehouseIdent::from_str"
    /\ ret' = WarehouseIdent_from_str(arg)
    /\ UNCHANGED <<kind, arg>>

\* WarehouseIdent::from_str(&WarehouseIdent::from(uuid).to_string())
RoundTripWarehouseIdent ==
    /\ call = "none" /\ kind = "Uuid"
    /\ call' = "WarehouseIdent::round_trip"
    /\ ret' = WarehouseIdent_from_str(WarehouseIdent_to_string(WarehouseIdent(arg)))
    /\ UNCHANGED <<kind, arg>>

\* WarehouseIdent::try_from(prefix)
WarehouseFromPrefix ==
    /\ call = "none" /\ kind = "String"
    /\ call' = "WarehouseIdent::try_from"
    /\ ret' = WarehouseIdent_try_from(arg)
    /\ UNCHANGED <<kind, arg>>

\* namespace.parent()
Parent ==
    /\ call = "none" /\ kind = "NamespaceIdent"
    /\ call' = "parent"
    /\ ret' = parent(arg)
    /\ UNCHANGED <<kind, arg>>

Init ==
    /\ call = "none"
    /\ ret = <<>>
    /\ \/ kind = "Status" /\ arg \in Statuses
       \/ kind = "OpenFGAError" /\ arg \in OpenFGAErrors
       \/ kind = "Entity" /\ arg \in FgaTypes \X Identities
       \/ kind = "String" /\ arg \in Texts
       \/ kind = "Uuid" /\ arg \in UuidValues
       \/ kind = "NamespaceIdent" /\ arg \in NamespaceIdents

Next ==
    \/ StoreCreation
    \/ ListStores
    \/ ListAuthenticationModels
    \/ WriteAuthorizationModel
    \/ UnexpectedEntity
    \/ Project
    \/ ProjectReturned
    \/ ProjectResponse
    \/ ParseNamespaceIdentUuid
    \/ RoundTripNamespaceIdentUuid
    \/ ParseTableIdentUuid
    \/ RoundTripTableIdentUuid
    \/ ParseProjectIdent
    \/ RoundTripProjectIdent
    \/ ParseWarehouseIdent
    \/ RoundTripWarehouseIdent
    \/ WarehouseFromPrefix
    \/ Parent

Spec == Init /\ [][Next]_vars

(***************************************************************************)
(* Properties of the REST projection and of the classification.            *)
(***************************************************************************)
\* p is an initial segment of m
IsPrefixOf(p, m) == \E n \in 0..Len(m) : SubSeq(m, 1, n) = p

Projected == call = "ErrorModel::from"

\* C1: a WriteFailed error projects to 409 / "TupleAlreadyExistsError" when
\* the message of the wrapped status starts with the tuple-already-exists
\* phrase, to 404 / "TupleNotFoundError" when it starts with the
\* tuple-does-not-exist phrase, and to 500 / "AuthorizationError" otherwise,
\* whatever the write request and the status code are.
C1_WriteFailedProjection ==
    (Projected /\ arg.variant = "WriteFailed") =>
        LET m == arg.source.message
        IN  IF IsPrefixOf(TupleAlreadyExistsPrefix, m)
            THEN ret.code = 409 /\ ret.type = "TupleAlreadyExistsError"
            ELSE IF IsPrefixOf(TupleNotFoundPrefix, m)
            THEN ret.code = 404 /\ ret.type = "TupleNotFoundError"
            ELSE ret.code = 500 /\ ret.type = "AuthorizationError"

C1_Witness ==
    /\ Projected
    /\ arg.variant = "WriteFailed"
    /\ arg.source.message = TupleNotFoundPrefix \o TupleDetail
    /\ arg.source.code = "InvalidArgument"
    /\ ret.code = 404

\* C2: the projection of SelfAssignment(x) has HTTP status 400, for every
\* identity string x.
C2_SelfAssignmentIs400 ==
    (Projected /\ arg.variant = "SelfAssignment") => ret.code = 400

\* C3 (as stated): the projection of Unauthenticated(status) has HTTP status
\* 401 and the projection of Internal(status) has HTTP status 500.
C3_UnauthenticatedIs401 ==
    /\ (Projected /\ arg.variant = "Unauthenticated") => ret.code = 401
    /\ (Projected /\ arg.variant = "Internal") => ret.code = 500

\* C3 (amended): the projections of Unauthenticated(status) and of
\* Internal(status) both have HTTP status 500 and type "AuthorizationError",
\* for every wrapped status.
C3_StoreStatusVariantsAre500 ==
    (Projected /\ arg.variant \in {"Unauthenticated", "Internal"}) =>
        ret.code = 500 /\ ret.type = "AuthorizationError"

C3_Witness ==
    /\ Projected
    /\ arg.variant = "Unauthenticated"
    /\ arg.status.code = "Unauthenticated"
    /\ ret.code = 500

\* C4: NoProjectId projects to 400 / "NoProjectId", AuthenticationRequired
\* to 401 / "AuthenticationRequired" and Unauthorized{user, relation, object}
\* to 401 / "Unauthorized".
C4_PolicyProjection ==
    Projected =>
        /\ arg.variant = "NoProjectId" =>
                ret.code = 400 /\ ret.type = "NoProjectId"
        /\ arg.variant = "AuthenticationRequired" =>
                ret.code = 401 /\ ret.type = "AuthenticationRequired"
        /\ arg.variant = "Unauthorized" =>
                ret.code = 401 /\ ret.type = "Unauthorized"

C4_Witness ==
    /\ Projected
    /\ arg.variant = "Unauthorized"
    /\ arg.user = "user:u1"
    /\ arg.object = "project:p1"
    /\ ret.code = 401

\* The variant a classifying constructor falls back to
OwnVariant(c) ==
    CASE c = "store_creation" -> "StoreCreationFailed"
      [] c = "list_stores" -> "ListStoresFailed"
      [] c = "list_authentication_models" -> "ListAuthenticationModelsFailed"
      [] c = "write_authorization_model" -> "WriteAuthorizationModelFailed"

\* C5: each classifying constructor returns Unauthenticated(s) for a status s
\* with the unauthenticated code, Internal(s) for one with the internal code
\* and its own variant wrapping s otherwise; the wrapped status is always s.
C5_KnownStatusWins ==
    call \in ClassifyingConstructors =>
        /\ ret.status = arg
        /\ ret.variant = IF arg.code = "Unauthenticated" THEN "Unauthenticated"
                         ELSE IF arg.code = "Internal" THEN "Internal"
                         ELSE OwnVariant(call)
        /\ DOMAIN ret = {"variant", "status"}

C5_Witness ==
    /\ call = "list_stores"
    /\ arg.code = "Internal"
    /\ ret.variant = "Internal"
    /\ ret.status = arg

\* The rows of the projection table: (HTTP status, type tag)
ProjectionRows ==
    {<<400, "NoProjectId">>, <<401, "AuthenticationRequired">>,
     <<401, "Unauthorized">>, <<409, "TupleAlreadyExistsError">>,
     <<404, "TupleNotFoundError">>, <<500, "AuthorizationError">>}

\* C6: the projection of every error value is one row (HTTP status, type tag)
\* and its cause is the error value that was projected.
C6_TotalAndCausePreserving ==
    Projected =>
        /\ <<ret.code, ret.type>> \in ProjectionRows
        /\ ret.source = Some(arg)

C6_Witness ==
    /\ Projected
    /\ arg.variant = "TooManyPages"
    /\ ret.source.some
    /\ ret.source.val = arg

\* e with the message of its wrapped status replaced by m
WithMessage(e, m) ==
    IF e.variant \in StatusSourceVariants
    THEN [e EXCEPT !.source.message = m]
    ELSE [e EXCEPT !.status.message = m]

\* C10: for every variant other than WriteFailed that wraps a status, the
\* HTTP status and type tag of the projection do not depend on the message:
\* the same error with any other message projects to the same pair, which
\* is never 409 or 404.
C10_SniffingConfinedToWriteFailed ==
    (/\ Projected
     /\ arg.variant \in (StatusTupleVariants \cup StatusSourceVariants)
                            \ {"WriteFailed"}) =>
        /\ ret.code \notin {409, 404}
        /\ \A m \in Messages :
              /\ From(WithMessage(arg, m)).code = ret.code
              /\ From(WithMessage(arg, m)).type = ret.type

C10_Witness ==
    /\ Projected
    /\ arg.variant = "CheckFailed"
    /\ arg.source.message = TupleAlreadyExistsPrefix \o TupleDetail
    /\ ret.code = 500

(***************************************************************************)
(* Properties of the identifier model.                                     *)
(***************************************************************************)
\* C7: parent returns None for a namespace of zero or one segment and Some
\* of the first n-1 segments, in order, for a namespace of n >= 2 segments.
C7_Parent ==
    call = "parent" =>
        IF Len(arg) <= 1
        THEN ret = None
        ELSE /\ ret.some
             /\ Len(ret.val) = Len(arg) - 1
             /\ \A i \in 1..(Len(arg) - 1) : ret.val[i] = arg[i]

C7_Witness ==
    /\ call = "parent"
    /\ arg = <<"a", "b", "c">>
    /\ ret = Some(<<"a", "b">>)

RoundTripCalls ==
    {"NamespaceIdentUuid::round_trip", "TableIdentUuid::round_trip",
     "ProjectIdent::round_trip", "WarehouseIdent::round_trip"}

\* The identifier type an operation belongs to
TypeOf(c) ==
    CASE c = "NamespaceIdentUuid::round_trip" -> "NamespaceIdentUuid"
      [] c = "TableIdentUuid::round_trip" -> "TableIdentUuid"
      [] c = "ProjectIdent::round_trip" -> "ProjectIdent"
      [] c = "WarehouseIdent::round_trip" -> "WarehouseIdent"

\* C8: for each identifier kind T and every UUID u, parsing the Display
\* rendering of T::from(u) succeeds and returns a value equal to T::from(u).
C8_RoundTrip ==
    call \in RoundTripCalls =>
        /\ ret.ok
        /\ ret.val = [type |-> TypeOf(call), uuid |-> arg]

C8_Witness ==
    /\ call = "ProjectIdent::round_trip"
    /\ arg[1] = 15
    /\ arg[2] = 2
    /\ ret.ok
    /\ ret.val.uuid = arg

ParseCalls ==
    {"NamespaceIdentUuid::from_str", "TableIdentUuid::from_str",
     "ProjectIdent::from_str", "WarehouseIdent::from_str",
     "WarehouseIdent::try_from"}

\* The type tag each parsing entry point is to report
TypeTag(c) ==
    CASE c = "NamespaceIdentUuid::from_str" -> "NamespaceIDIsNotUUID"
      [] c = "TableIdentUuid::from_str" -> "TableIDIsNotUUID"
      [] c = "ProjectIdent::from_str" -> "ProjectIDIsNotUUID"
      [] c = "WarehouseIdent::from_str" -> "WarehouseIDIsNotUUID"
      [] c = "WarehouseIdent::try_from" -> "PrefixIsNotWarehouseID"

HexDigitChars ==
    {"0", "1", "2", "3", "4", "5", "6", "7", "8", "9",
     "a", "b", "c", "d", "e", "f", "A", "B", "C", "D", "E", "F"}

\* t is written 8-4-4-4-12 in hexadecimal digits
IsHyphenatedText(t) ==
    /\ Len(t) = 36
    /\ \A i \in 1..36 :
          IF i \in {9, 14, 19, 24} THEN CharAt(t, i) = "-"
          ELSE CharAt(t, i) \in HexDigitChars

\* s is one of the textual forms of a UUID
ValidUuidText(s) ==
    \/ Len(s) = 32 /\ \A i \in 1..32 : CharAt(s, i) \in HexDigitChars
    \/ IsHyphenatedText(s)
    \/ \E t \in {SubSeq(s, 2, Len(s) - 1)} :
          s = "{" \o t \o "}" /\ IsHyphenatedText(t)
    \/ \E t \in {SubSeq(s, 10, Len(s))} :
          s = "urn:uuid:" \o t /\ IsHyphenatedText(t)

\* C9: on a string that is not a valid UUID each of the five parsing entry
\* points fails with an error of HTTP code 400 and the type tag of that
\* entry point, and the five type tags are different.
C9_ParseFailure ==
    /\ Cardinality({TypeTag(c) : c \in ParseCalls}) = 5
    /\ (call \in ParseCalls /\ ~ValidUuidText(arg)) =>
            /\ ~ret.ok
            /\ ret.err.error.code = 400
            /\ ret.err.error.type = TypeTag(call)

C9_Witness ==
    /\ call = "TableIdentUuid::from_str"
    /\ arg = "not-a-uuid"
    /\ ~ret.ok
    /\ ret.err.error.type = "TableIDIsNotUUID"

\* The parsers accept every textual form of a UUID and the drawn strings
\* contain both forms and strings that are none.
ParsersAcceptUuidTexts ==
    (call \in ParseCalls /\ ValidUuidText(arg)) => ret.ok

TextsAreClassified ==
    /\ \A s \in UuidTexts : ValidUuidText(s)
    /\ \A s \in NonUuidTexts : ~ValidUuidText(s)

====
